---- MODULE Spec2Model ----
(***************************************************************************)
(* Model of src/app.py, the Streamlit "Singapore River Dreams Song         *)
(* Generator".  One run of main() is one action: the user loads a sheet,   *)
(* edits the sidebar, or presses "Generate Song".  st.session_state and    *)
(* the sidebar widgets are the persistent state; the outbound requests and *)
(* the messages rendered by the last run are recorded so that properties   *)
(* of a run can be stated.                                                 *)
(***************************************************************************)
EXTENDS Integers, Sequences, FiniteSets, TLC

VARIABLES
    dreams_df,       \* st.session_state.dreams_df : None or Some(table)
    lyrics,          \* st.session_state.lyrics    : None or Some(text)
    suno_result,     \* st.session_state.suno_result : None or Some(response dict)
    claude_api_key,  \* sidebar text input
    suno_api_key,    \* sidebar text input
    csv,             \* the CSV text behind dreams_df (history variable)
    calls,           \* outbound API requests issued by the last run, in order
    ui,              \* messages rendered by the last run, in order
    run              \* the last run: which button, its inputs, what upstream answered

vars == <<dreams_df, lyrics, suno_result, claude_api_key, suno_api_key,
          csv, calls, ui, run>>

----------------------------------------------------------------------------
(* Python values *)

\* Python's None, and a present value, for variables that may hold either.
None == <<>>
Some(x) == <<x>>
Val(o) == o[1]

\* Truthiness of an optional string (None and "" are falsy).
Truthy(o) == o # None /\ Val(o) # ""

Min(a, b) == IF a < b THEN a ELSE b

----------------------------------------------------------------------------
(* Bounds *)

\* Longest sheet loaded, in rows.
MaxRows == 22
\* Widest sheet loaded, in columns.
MaxCols == 2

----------------------------------------------------------------------------
(* The spreadsheet: CSV text cells, and pandas' parse of them *)

DreamTexts == <<"clean river water", "a floating garden", "night lights on the quay">>

\* Rows whose cells vary between sheets; every other cell holds a dream text.
FreeRows == {1, 3}

\* Row 1 may be blank, row 3 may hold the text N/A.
MarkPatterns ==
    { p \in [FreeRows -> {"", "N/A", DreamTexts[2]}] : p[1] # "N/A" /\ p[3] # "" }

RowCounts == {0, 3, MaxRows}

\* The CSV text of cell (column c, row i) of a sheet of ncols columns whose last
\* column carries pattern p.
CsvCell(p, ncols, c, i) ==
    IF c = ncols /\ i \in FreeRows THEN p[i]
    ELSE DreamTexts[((i + c) % Len(DreamTexts)) + 1]

\* A sheet's CSV export: a sequence of columns, each a sequence of cell texts.
CsvTable(ncols, nrows, p) ==
    [c \in 1..ncols |-> [i \in 1..nrows |-> CsvCell(p, ncols, c, i)]]

Sheets ==
    { CsvTable(ncols, nrows, p) :
        ncols \in 1..MaxCols, nrows \in RowCounts, p \in MarkPatterns }

\* pandas.read_csv defaults (keep_default_na=True): these cell texts parse to NaN.
NaStrings == {"", "#N/A", "N/A", "NA", "NULL", "NaN", "n/a", "nan", "null"}

NaN == [isna |-> TRUE, text |-> ""]

ParseCell(text) ==
    IF text \in NaStrings THEN NaN ELSE [isna |-> FALSE, text |-> text]

\* pd.read_csv: the DataFrame, column by column.
read_csv(table) ==
    [c \in 1..Len(table) |-> [i \in 1..Len(table[c]) |-> ParseCell(table[c][i])]]

\* df.columns, len(df)
Columns(df) == 1..Len(df)
NumRows(df) == IF Len(df) = 0 THEN 0 ELSE Len(df[1])

----------------------------------------------------------------------------
(* load_google_sheet *)

\* A URL is the sequence of its "/"-separated segments; "" is the empty input.
NoUrl == <<>>
OtherUrl == <<"https:", "", "example.com", "dreams.csv">>
SheetsUrlNoId == <<"https:", "", "docs.google.com", "spreadsheets">>
SheetsUrl == <<"https:", "", "docs.google.com", "spreadsheets", "d", "SHEET", "edit#gid=0">>

SheetUrls == {NoUrl, OtherUrl, SheetsUrlNoId, SheetsUrl}

\* 'docs.google.com/spreadsheets' in sheet_url
IsSheetsUrl(sheet_url) ==
    \E i \in 1..(Len(sheet_url) - 1) :
        sheet_url[i] = "docs.google.com" /\ sheet_url[i + 1] = "spreadsheets"

\* Positions of a "/d/" in the URL: a segment "d" with a segment on either side.
IdMarks(sheet_url) == { i \in 2..(Len(sheet_url) - 1) : sheet_url[i] = "d" }

\* sheet_url.split('/d/')[1].split('/')[0]; None stands for the IndexError.
SheetId(sheet_url) ==
    IF IdMarks(sheet_url) = {} THEN None
    ELSE LET i == CHOOSE i \in IdMarks(sheet_url) : \A j \in IdMarks(sheet_url) : i <= j
         IN  Some(sheet_url[i + 1])

\* What fetching and parsing the CSV export does: raises, or yields the sheet's CSV.
NoTable == <<>>
FetchErrors == {"unreachable", "malformed"}
Fetches ==
    { [kind |-> k, table |-> NoTable] : k \in FetchErrors }
    \cup { [kind |-> "table", table |-> t] : t \in Sheets }

Msg(kind, fmt, arg) == [kind |-> kind, text |-> <<fmt, arg>>]

load_google_sheet(sheet_url, fetched) ==
    IF IsSheetsUrl(sheet_url)
    THEN IF SheetId(sheet_url) = None
         THEN [df |-> None, csv |-> None,
               errors |-> <<Msg("error", "Error loading Google Sheet: ", "list index out of range")>>]
         ELSE IF fetched.kind # "table"
         THEN [df |-> None, csv |-> None,
               errors |-> <<Msg("error", "Error loading Google Sheet: ", fetched.kind)>>]
         ELSE [df |-> Some(read_csv(fetched.table)), csv |-> Some(fetched.table),
               errors |-> <<>>]
    ELSE [df |-> None, csv |-> None,
          errors |-> <<Msg("error", "Please provide a valid Google Sheets URL", "")>>]

----------------------------------------------------------------------------
(* generate_lyrics_with_claude *)

\* st.session_state.dreams_df[dream_column].dropna().tolist()
RECURSIVE DropNa(_)
DropNa(column) ==
    IF column = <<>> THEN <<>>
    ELSE IF Head(column).isna THEN DropNa(Tail(column))
    ELSE <<Head(column).text>> \o DropNa(Tail(column))

DreamsList(df, dream_column) == DropNa(df[dream_column])

\* A prompt is the sequence of its lines; a line is <<prefix, rest>>.
PromptHead ==
    << <<"", "You are a creative songwriter tasked with creating beautiful, inspiring song lyrics about Singapore's river and people's dreams connected to it.">>,
       <<"", "">>,
       <<"", "Here are the dreams and wishes from various people about Singapore's river:">>,
       <<"", "">> >>

PromptTail ==
    << <<"", "">>,
       <<"", "Please create original 2-minute song lyrics that:">>,
       <<"", "1. Weave together the essence and themes from these dreams">>,
       <<"", "2. Celebrate Singapore's river and its meaning to people">>,
       <<"", "3. Are uplifting and inspiring">>,
       <<"", "4. Have a clear verse-chorus structure suitable for singing">>,
       <<"", "5. Capture the multicultural spirit of Singapore">>,
       <<"", "6. Include imagery of water, hopes, and community">>,
       <<"", "">>,
       <<"", "The lyrics should be completely original and suitable for a 2-minute song. Please format with clear verse and chorus sections.">> >>

\* "\n".join([f"- {dream}" for dream in dreams_list])
DreamsText(dreams_list) ==
    [i \in 1..Len(dreams_list) |-> <<"- ", dreams_list[i]>>]

LyricsPromptDropsLast(dreams_list) ==
    PromptHead
    \o DreamsText(SubSeq(dreams_list, 1, Len(dreams_list) - 1))
    \o PromptTail

LyricsPrompt(dreams_list) == PromptHead \o DreamsText(dreams_list) \o PromptTail

LyricsTexts == {"Verse 1: By the river ...", "Chorus: Dreams flow on ..."}

\* What the text-generation endpoint does with the request.
NoClaudeResponse == [kind |-> "none", status |-> 0, body |-> "none", text |-> ""]
ClaudeResponses ==
    { [kind |-> "exception", status |-> 0, body |-> "none", text |-> ""],
      [kind |-> "http", status |-> 401, body |-> "json", text |-> ""],
      [kind |-> "http", status |-> 200, body |-> "malformed", text |-> ""] }
    \cup { [kind |-> "http", status |-> 200, body |-> "json", text |-> t] :
             t \in LyricsTexts \cup {""} }

ClaudeRequest(dreams_list, api_key) ==
    [api |-> "claude", key |-> api_key,
     json |-> [model |-> "claude-3-5-sonnet-20241022", max_tokens |-> 1000,
               prompt |-> LyricsPrompt(dreams_list)]]

generate_lyrics_with_claude(dreams_list, api_key, resp) ==
    LET request == ClaudeRequest(dreams_list, api_key) IN
    IF resp.kind = "exception"
    THEN [ret |-> None, calls |-> <<request>>,
          errors |-> <<Msg("error", "Error calling Claude API: ", "exception")>>]
    ELSE IF resp.status = 200
    THEN IF resp.body = "json"
         THEN [ret |-> Some(resp.text), calls |-> <<request>>, errors |-> <<>>]
         ELSE [ret |-> None, calls |-> <<request>>,
               errors |-> <<Msg("error", "Error calling Claude API: ", "malformed body")>>]
    ELSE [ret |-> None, calls |-> <<request>>,
          errors |-> <<Msg("error", "Claude API Error: ", ToString(resp.status))>>]

----------------------------------------------------------------------------
(* generate_song_with_suno *)

DefaultCallback == "https://temp-callback-url.example.com"

\* The Song Title, Music Genre and Callback URL widgets, left at their defaults.
SongInputs ==
    { [title |-> "Singapore River Dreams", genre |-> "pop", callback_url |-> ""] }

SunoPayloadInstrumental(lyrics_value, title, genre, callback_url) ==
    [prompt |-> lyrics_value, style |-> genre, title |-> title,
     customMode |-> TRUE, instrumental |-> TRUE, model |-> "V4",
     negativeTags |-> "Heavy Metal, Aggressive",
     callBackUrl |-> IF callback_url # "" THEN callback_url ELSE DefaultCallback]

SunoPayload(lyrics_value, title, genre, callback_url) ==
    [prompt |-> lyrics_value, style |-> genre, title |-> title,
     customMode |-> TRUE, instrumental |-> FALSE, model |-> "V4",
     negativeTags |-> "Heavy Metal, Aggressive",
     callBackUrl |-> IF callback_url # "" THEN callback_url ELSE DefaultCallback]

\* The 'data' member of the music API's JSON body.
NoData == [kind |-> "absent", task_id |-> None]
TaskIds == {"5c79be8e"}
SunoData ==
    { NoData,
      [kind |-> "null", task_id |-> None],
      [kind |-> "object", task_id |-> None] }
    \cup { [kind |-> "object", task_id |-> Some(t)] : t \in TaskIds }

\* The JSON bodies the music API answers with.
NoJson == [code |-> 0, msg |-> None, data |-> NoData]
SunoJson ==
    { [code |-> 200, msg |-> Some("success"), data |-> d] : d \in SunoData }
    \cup { [code |-> 429, msg |-> None, data |-> NoData] }
    \cup { [code |-> 401, msg |-> Some("Unauthorized"),
            data |-> [kind |-> "object", task_id |-> Some(t)]] : t \in TaskIds }

NoSunoResponse == [kind |-> "none", status |-> 0, body |-> "none", json |-> NoJson]
SunoResponses ==
    { [kind |-> "exception", status |-> 0, body |-> "none", json |-> NoJson],
      [kind |-> "http", status |-> 500, body |-> "json", json |-> NoJson],
      [kind |-> "http", status |-> 200, body |-> "malformed", json |-> NoJson] }
    \cup { [kind |-> "http", status |-> 200, body |-> "json", json |-> j] : j \in SunoJson }

SunoRequest(lyrics_value, api_key, title, genre, callback_url) ==
    [api |-> "suno", key |-> api_key,
     json |-> SunoPayload(lyrics_value, title, genre, callback_url)]

\* result.get('msg', 'Unknown error')
GetMsg(result) == IF result.msg = None THEN "Unknown error" ELSE Val(result.msg)

generate_song_with_suno_HttpOnly(lyrics_value, api_key, title, genre, callback_url, resp) ==
    LET request == SunoRequest(lyrics_value, api_key, title, genre, callback_url) IN
    IF resp.kind = "http" /\ resp.status = 200 /\ resp.body = "json"
    THEN [ret |-> Some(resp.json), calls |-> <<request>>, errors |-> <<>>]
    ELSE [ret |-> None, calls |-> <<request>>,
          errors |-> <<Msg("error", "Error calling Suno API: ", "failure")>>]

generate_song_with_suno(lyrics_value, api_key, title, genre, callback_url, resp) ==
    LET request == SunoRequest(lyrics_value, api_key, title, genre, callback_url) IN
    IF resp.kind = "exception"
    THEN [ret |-> None, calls |-> <<request>>,
          errors |-> <<Msg("error", "Error calling Suno API: ", "exception")>>]
    ELSE IF resp.status = 200
    THEN IF resp.body # "json"
         THEN [ret |-> None, calls |-> <<request>>,
               errors |-> <<Msg("error", "Error calling Suno API: ", "malformed body")>>]
         ELSE IF resp.json.code = 200
         THEN [ret |-> Some(resp.json), calls |-> <<request>>, errors |-> <<>>]
         ELSE [ret |-> None, calls |-> <<request>>,
               errors |-> <<Msg("error", "Suno API Error: ", GetMsg(resp.json))>>]
    ELSE [ret |-> None, calls |-> <<request>>,
          errors |-> <<Msg("error", "Suno API HTTP Error: ", ToString(resp.status))>>]

----------------------------------------------------------------------------
(* main: one run of the script per user interaction *)

Keys == {"", "key"}

\* Line 287: the Generate Song button is rendered only under this condition.
GenerateButtonShownWithoutKeys(df, claude_key, suno_key) == df # None

GenerateButtonShown(df, claude_key, suno_key) ==
    df # None /\ claude_key # "" /\ suno_key # ""

\* Lines 287, 399-403: what the right column shows when the button is not pressed.
SongColumnIdle(df, claude_key, suno_key) ==
    IF GenerateButtonShown(df, claude_key, suno_key) THEN <<>>
    ELSE IF claude_key = "" \/ suno_key = ""
    THEN <<Msg("info", "Please enter your API keys in the sidebar to start generating songs.", "")>>
    ELSE <<Msg("info", "Please load dreams from Google Sheets first.", "")>>

\* Lines 266-267: session_state.dreams_df after a load that returned `loaded`.
DreamsAfterLoadAlways(old, loaded) == loaded

DreamsAfterLoad(old, loaded) == IF loaded # None THEN loaded ELSE old

\* Line 302: `if lyrics:`
ShouldRequestSongAlways(lyrics_ret) == TRUE

ShouldRequestSong(lyrics_ret) == Truthy(lyrics_ret)

\* Lines 311-316: the session's lyrics and suno_result after the song request.
SessionAfterKeepsLyrics(old_lyrics, old_result, lyrics_ret, suno_ret) ==
    [lyrics |-> lyrics_ret,
     suno_result |-> IF suno_ret # None THEN suno_ret ELSE old_result]

SessionAfterClearsOnFailure(old_lyrics, old_result, lyrics_ret, suno_ret) ==
    IF suno_ret # None
    THEN [lyrics |-> lyrics_ret, suno_result |-> suno_ret]
    ELSE [lyrics |-> lyrics_ret, suno_result |-> None]

SessionAfter(old_lyrics, old_result, lyrics_ret, suno_ret) ==
    IF suno_ret # None
    THEN [lyrics |-> lyrics_ret, suno_result |-> suno_ret]
    ELSE [lyrics |-> old_lyrics, suno_result |-> old_result]

\* Lines 311-394: what is rendered for the music API's answer.
TaskIdOf(result) == IF result.data.task_id = None THEN "" ELSE Val(result.data.task_id)

DisplayResult(suno_ret) ==
    IF suno_ret = None THEN <<>>
    ELSE LET result == Val(suno_ret) IN
         <<Msg("success", "Song generation request sent successfully!", "")>>
         \o (IF result.data.kind = "null"
             THEN <<Msg("exception", "AttributeError: 'NoneType' object has no attribute 'get'", "")>>
             ELSE (IF result.data.kind = "object" /\ Truthy(result.data.task_id)
                   THEN <<Msg("info", "Task ID: ", TaskIdOf(result))>>
                   ELSE <<>>)
                  \o <<Msg("json", "API Response Details", TaskIdOf(result))>>)

\* Lines 292-397: the body of `if st.button("Generate Song")`.
main_generate(df, old_lyrics, old_result, claude_key, suno_key, dream_column, inputs, claude_resp, suno_resp) ==
    LET dreams_list == DreamsList(Val(df), dream_column)
        L == generate_lyrics_with_claude(dreams_list, claude_key, claude_resp)
        S == generate_song_with_suno(L.ret, suno_key, inputs.title, inputs.genre,
                                     inputs.callback_url, suno_resp)
        keep == [lyrics |-> old_lyrics, suno_result |-> old_result]
    IN
    IF dreams_list = <<>>
    THEN [calls |-> <<>>, session |-> keep,
          ui |-> <<Msg("warning", "No dreams found in the selected column.", "")>>,
          claude |-> NoClaudeResponse, suno |-> NoSunoResponse]
    ELSE IF ~ShouldRequestSong(L.ret)
    THEN [calls |-> L.calls, session |-> keep, ui |-> L.errors,
          claude |-> claude_resp, suno |-> NoSunoResponse]
    ELSE [calls |-> L.calls \o S.calls,
          session |-> SessionAfter(old_lyrics, old_result, L.ret, S.ret),
          ui |-> <<Msg("success", "Lyrics generated successfully!", ""),
                   Msg("lyrics", "Generated Lyrics:", IF L.ret = None THEN "None" ELSE Val(L.ret))>>
                 \o S.errors \o DisplayResult(S.ret),
          claude |-> claude_resp, suno |-> suno_resp]

NoRun ==
    [action |-> "start", sheet_url |-> NoUrl, fetched |-> "none", fetched_ncols |-> 0,
     dream_column |-> 0,
     claude |-> NoClaudeResponse, suno |-> NoSunoResponse]

Init ==
    /\ dreams_df = None
    /\ lyrics = None
    /\ suno_result = None
    /\ claude_api_key = ""
    /\ suno_api_key = ""
    /\ csv = None
    /\ calls = <<>>
    /\ ui = SongColumnIdle(None, "", "")
    /\ run = NoRun

\* Lines 221-222: the user edits the sidebar keys; the script reruns, no button pressed.
EditSidebar ==
    \E claude_key \in Keys, suno_key \in Keys :
        /\ <<claude_key, suno_key>> # <<claude_api_key, suno_api_key>>
        /\ claude_api_key' = claude_key
        /\ suno_api_key' = suno_key
        /\ calls' = <<>>
        /\ ui' = SongColumnIdle(dreams_df, claude_key, suno_key)
        /\ run' = [NoRun EXCEPT !.action = "rerun"]
        /\ UNCHANGED <<dreams_df, lyrics, suno_result, csv>>

\* Lines 262-268: "Load Dreams from Google Sheet" pressed (rendered only with a URL).
LoadSheet ==
    \E sheet_url \in SheetUrls \ {NoUrl}, fetched \in Fetches :
        LET r == load_google_sheet(sheet_url, fetched)
            fetching == IsSheetsUrl(sheet_url) /\ SheetId(sheet_url) # None
        IN
        /\ fetching \/ fetched.kind = "unreachable"
        /\ dreams_df' = DreamsAfterLoad(dreams_df, r.df)
        /\ csv' = IF r.df # None THEN r.csv ELSE csv
        /\ calls' = <<>>
        /\ ui' = r.errors
                 \o (IF r.df # None
                     THEN <<Msg("success", "Successfully loaded entries: ",
                                ToString(NumRows(Val(r.df))))>>
                     ELSE <<>>)
                 \o SongColumnIdle(dreams_df', claude_api_key, suno_api_key)
        /\ run' = [NoRun EXCEPT !.action = "load", !.sheet_url = sheet_url,
                                !.fetched = IF fetching THEN fetched.kind ELSE "none",
                                !.fetched_ncols = IF fetching THEN Len(fetched.table) ELSE 0]
        /\ UNCHANGED <<lyrics, suno_result, claude_api_key, suno_api_key>>

\* The song widgets' values and the music API's answer matter to a run only when it
\* reaches line 309; otherwise one representative stands for all of them.
SongOutcomes(df, dream_column, claude_key, claude_resp) ==
    LET dreams_list == DreamsList(Val(df), dream_column)
        L == generate_lyrics_with_claude(<<>>, claude_key, claude_resp)
    IN  IF dreams_list # <<>> /\ ShouldRequestSong(L.ret)
        THEN [inputs : SongInputs, resp : SunoResponses]
        ELSE [inputs : {CHOOSE i \in SongInputs : TRUE}, resp : {NoSunoResponse}]

\* Lines 287-397: "Generate Song" pressed.
GenerateSong ==
    /\ GenerateButtonShown(dreams_df, claude_api_key, suno_api_key)
    /\ \E dream_column \in Columns(Val(dreams_df)), claude_resp \in ClaudeResponses :
       \E song \in SongOutcomes(dreams_df, dream_column, claude_api_key, claude_resp) :
        LET g == main_generate(dreams_df, lyrics, suno_result, claude_api_key,
                               suno_api_key, dream_column, song.inputs, claude_resp,
                               song.resp)
        IN
        /\ lyrics' = g.session.lyrics
        /\ suno_result' = g.session.suno_result
        /\ calls' = g.calls
        /\ ui' = g.ui
        /\ run' = [NoRun EXCEPT !.action = "generate", !.dream_column = dream_column,
                                !.claude = g.claude, !.suno = g.suno]
        /\ UNCHANGED <<dreams_df, csv, claude_api_key, suno_api_key>>

Next == EditSidebar \/ LoadSheet \/ GenerateSong

Spec == Init /\ [][Next]_vars

----------------------------------------------------------------------------
(* The repository's second variant of the script, as spec.md describes it: song    *)
(* preferences (vocal type, instrumental toggle, extra style text, negative tags,  *)
(* model version) and a prompt built from the first 20 dreams only.                *)

\* spec.md 3, DreamSet: "truncated to a fixed prefix (first 20) when used for prompting".
PromptLimit == 20

\* spec.md 3, SongRequestConfig.
SongConfigs ==
    [title : {"Singapore River Dreams"}, genre : {"pop"}, vocal : {"Mixed", "Female"},
     instrumental : BOOLEAN, extra_style : {"dreamy"},
     negative_tags : {"Heavy Metal, Aggressive"}, callback_url : {DefaultCallback},
     model : {"V4"}, description : {"A calm instrumental about the Singapore River"}]

\* spec.md 4.3: genre, the vocal qualifier unless "Mixed", and the extra style text.
StyleString(cfg) ==
    <<cfg.genre>>
    \o (IF cfg.vocal # "Mixed" THEN <<cfg.vocal>> ELSE <<>>)
    \o (IF cfg.extra_style # "" THEN <<cfg.extra_style>> ELSE <<>>)

SunoPayloadFromConfigLyricsAlways(lyrics_value, cfg) ==
    [prompt |-> lyrics_value, style |-> StyleString(cfg), title |-> cfg.title,
     customMode |-> TRUE, instrumental |-> cfg.instrumental, model |-> cfg.model,
     negativeTags |-> cfg.negative_tags, callBackUrl |-> cfg.callback_url]

\* spec.md 4.3: the prompt is the lyrics, or the description in instrumental mode.
SunoPayloadFromConfig(lyrics_value, cfg) ==
    [prompt |-> IF cfg.instrumental THEN Some(cfg.description) ELSE lyrics_value,
     style |-> StyleString(cfg), title |-> cfg.title,
     customMode |-> TRUE, instrumental |-> cfg.instrumental, model |-> cfg.model,
     negativeTags |-> cfg.negative_tags, callBackUrl |-> cfg.callback_url]

\* The music API's answers the variant is exercised with.
VariantSunoResponses ==
    { r \in SunoResponses :
        \/ r.kind = "exception"
        \/ r.kind = "http" /\ r.body = "json" /\ r.json.msg # None
                           /\ r.json.data.task_id # None }

generate_song_with_config(lyrics_value, api_key, cfg, resp) ==
    [generate_song_with_suno(lyrics_value, api_key, cfg.title, cfg.genre,
                             cfg.callback_url, resp)
        EXCEPT !.calls = <<[api |-> "suno", key |-> api_key,
                            json |-> SunoPayloadFromConfig(lyrics_value, cfg)]>>]

main_generate_with_config(df, old_lyrics, old_result, claude_key, suno_key, dream_column, cfg, claude_resp, suno_resp) ==
    LET all == DreamsList(Val(df), dream_column)
        dreams_list == SubSeq(all, 1, Min(Len(all), PromptLimit))
        L == generate_lyrics_with_claude(dreams_list, claude_key, claude_resp)
        S == generate_song_with_config(L.ret, suno_key, cfg, suno_resp)
        keep == [lyrics |-> old_lyrics, suno_result |-> old_result]
    IN
    IF dreams_list = <<>>
    THEN [calls |-> <<>>, session |-> keep,
          ui |-> <<Msg("warning", "No dreams found in the selected column.", "")>>,
          claude |-> NoClaudeResponse, suno |-> NoSunoResponse, cfg |-> cfg]
    ELSE IF ~ShouldRequestSong(L.ret)
    THEN [calls |-> L.calls, session |-> keep, ui |-> L.errors,
          claude |-> claude_resp, suno |-> NoSunoResponse, cfg |-> cfg]
    ELSE [calls |-> L.calls \o S.calls,
          session |-> SessionAfter(old_lyrics, old_result, L.ret, S.ret),
          ui |-> <<Msg("success", "Lyrics generated successfully!", ""),
                   Msg("lyrics", "Generated Lyrics:", Val(L.ret))>>
                 \o S.errors \o DisplayResult(S.ret),
          claude |-> claude_resp, suno |-> suno_resp, cfg |-> cfg]

\* The preference widgets matter to a run only when it requests a song.
ConfigOutcomes(df, dream_column, claude_key, claude_resp) ==
    LET dreams_list == DreamsList(Val(df), dream_column)
        L == generate_lyrics_with_claude(<<>>, claude_key, claude_resp)
    IN  IF dreams_list # <<>> /\ ShouldRequestSong(L.ret)
        THEN [cfg : SongConfigs, resp : VariantSunoResponses]
        ELSE [cfg : {CHOOSE c \in SongConfigs : ~c.instrumental /\ c.vocal = "Mixed"},
              resp : {NoSunoResponse}]

\* "Generate Song" pressed in the variant with song preferences.
GenerateSongWithConfig ==
    /\ GenerateButtonShown(dreams_df, claude_api_key, suno_api_key)
    /\ \E dream_column \in Columns(Val(dreams_df)), claude_resp \in ClaudeResponses :
       \E song \in ConfigOutcomes(dreams_df, dream_column, claude_api_key, claude_resp) :
        LET g == main_generate_with_config(dreams_df, lyrics, suno_result,
                                           claude_api_key, suno_api_key, dream_column,
                                           song.cfg, claude_resp, song.resp)
        IN
        /\ lyrics' = g.session.lyrics
        /\ suno_result' = g.session.suno_result
        /\ calls' = g.calls
        /\ ui' = g.ui
        /\ run' = [NoRun EXCEPT !.action = IF song.cfg.instrumental
                                           THEN "generate instrumental"
                                           ELSE "generate vocal",
                                !.dream_column = dream_column,
                                !.claude = g.claude, !.suno = g.suno]
        /\ UNCHANGED <<dreams_df, csv, claude_api_key, suno_api_key>>

NextVariant == EditSidebar \/ LoadSheet \/ GenerateSongWithConfig

SpecVariant == Init /\ [][NextVariant]_vars

----------------------------------------------------------------------------
(* Vocabulary of the properties *)

IsClaudeCall(c) == c.api = "claude"
IsSunoCall(c) == c.api = "suno"
ClaudeCalls == SelectSeq(calls, IsClaudeCall)
SunoCalls == SelectSeq(calls, IsSunoCall)

ShownIn(u, kind, fmt) == \E i \in 1..Len(u) : u[i].kind = kind /\ u[i].text[1] = fmt
ShownWithIn(u, kind, fmt, arg) == \E i \in 1..Len(u) : u[i] = Msg(kind, fmt, arg)
Shown(kind, fmt) == ShownIn(ui, kind, fmt)
ShownWith(kind, fmt, arg) == ShownWithIn(ui, kind, fmt, arg)

Generated == run.action = "generate"

\* The text-generation call was made and did not succeed.
ClaudeFailed(resp) ==
    \/ resp.kind = "exception"
    \/ resp.kind = "http" /\ (resp.status # 200 \/ resp.body # "json")

\* The text-generation call returned non-empty lyrics.
ClaudeReturnedLyrics(resp) ==
    resp.kind = "http" /\ resp.status = 200 /\ resp.body = "json" /\ resp.text # ""

\* The music API answered HTTP 200 with a JSON body whose 'code' is not 200.
EmbeddedFailure(resp) ==
    resp.kind = "http" /\ resp.status = 200 /\ resp.body = "json" /\ resp.json.code # 200

SunoSucceeded(resp) ==
    resp.kind = "http" /\ resp.status = 200 /\ resp.body = "json" /\ resp.json.code = 200

\* The music-API call was made and failed.
SunoFailed(resp) == resp.kind # "none" /\ ~SunoSucceeded(resp)

\* The dream sequence of the last Generate Song run.
RunDreams == DreamsList(Val(dreams_df), run.dream_column)

\* The bulleted lines of a prompt.
IsBullet(line) == line[1] = "- "
Bullets(prompt) == SelectSeq(prompt, IsBullet)

----------------------------------------------------------------------------
(* C1 *)

\* C1: a Generate Song run whose text-generation call fails (transport exception,
\* non-200 status, malformed body) issues no request to the music API, and reports
\* the failure.
C1_NoSongRequestAfterLyricsFailure ==
    (Generated /\ ClaudeFailed(run.claude)) =>
        /\ Len(SunoCalls) = 0
        /\ Len(ClaudeCalls) = 1
        /\ \E i \in 1..Len(ui) : ui[i].kind = "error"

C1_Witness ==
    /\ Generated
    /\ ClaudeFailed(run.claude)
    /\ run.claude.status = 200
    /\ Len(calls) = 1

----------------------------------------------------------------------------
(* C2 *)

\* C2: when the music API answers HTTP 200 with an embedded 'code' other than 200,
\* the run reports "Suno API Error" with the embedded 'msg' ('Unknown error' when the
\* body has none), shows neither a task identifier nor the success banner nor the
\* response dump, and leaves the session's lyrics and suno_result as they were.
C2_EmbeddedFailureReported ==
    [][ (run'.action = "generate" /\ EmbeddedFailure(run'.suno)) =>
            /\ ShownWithIn(ui', "error", "Suno API Error: ", GetMsg(run'.suno.json))
            /\ ~ShownIn(ui', "info", "Task ID: ")
            /\ ~ShownIn(ui', "json", "API Response Details")
            /\ ~ShownIn(ui', "success", "Song generation request sent successfully!")
            /\ suno_result' = suno_result
            /\ lyrics' = lyrics ]_vars

C2_Witness ==
    /\ Generated
    /\ EmbeddedFailure(run.suno)
    /\ run.suno.json.data.task_id # None
    /\ ShownWith("error", "Suno API Error: ", "Unauthorized")

----------------------------------------------------------------------------
(* C3 *)

\* C3: a text-generation request is issued only in a run that has a loaded sheet in
\* the session and both API keys non-empty; a music-generation request is issued
\* only after a text-generation request of the same run that returned non-empty lyrics.
C3_RequestPreconditions ==
    /\ \A i \in 1..Len(calls) :
          IsClaudeCall(calls[i]) =>
              /\ dreams_df # None
              /\ claude_api_key # "" /\ suno_api_key # ""
              /\ calls[i].key = claude_api_key
    /\ \A j \in 1..Len(calls) :
          IsSunoCall(calls[j]) =>
              /\ \E i \in 1..(j - 1) : IsClaudeCall(calls[i])
              /\ ClaudeReturnedLyrics(run.claude)
              /\ calls[j].json.prompt = Some(run.claude.text)

C3_Witness ==
    /\ Len(calls) = 2
    /\ IsClaudeCall(calls[1])
    /\ IsSunoCall(calls[2])

----------------------------------------------------------------------------
(* C4 *)

LoadRan == run.action = "load"

\* The load was refused or raised: the URL is no Sheets URL, it has no /d/<id>/
\* part, or fetching or parsing the CSV export raised.
LoadRaised(r) ==
    \/ ~IsSheetsUrl(r.sheet_url)
    \/ SheetId(r.sheet_url) = None
    \/ r.fetched \in FetchErrors

\* C4 as stated: a load of a bad URL, of an unreachable or malformed sheet, or of a
\* table with fewer than two columns reports failure and leaves dreams_df unchanged.
C4_AsStated ==
    [][ (run'.action = "load"
         /\ (LoadRaised(run') \/ (run'.fetched = "table" /\ run'.fetched_ncols < 2))) =>
            /\ \E i \in 1..Len(ui') : ui'[i].kind = "error"
            /\ dreams_df' = dreams_df ]_vars

\* C4 amended: a load that is refused or raises (bad URL, unreachable sheet,
\* malformed CSV) reports an error and leaves dreams_df unchanged; every table that
\* parses, a one-column table included, is a successful load and replaces dreams_df.
C4_FailedLoadKeepsDreams ==
    [][ (run'.action = "load") =>
            IF LoadRaised(run')
            THEN /\ \E i \in 1..Len(ui') : ui'[i].kind = "error"
                 /\ ~ShownIn(ui', "success", "Successfully loaded entries: ")
                 /\ dreams_df' = dreams_df
            ELSE /\ \A i \in 1..Len(ui') : ui'[i].kind # "error"
                 /\ dreams_df' # None
                 /\ Len(Val(dreams_df')) = run'.fetched_ncols
                 /\ dreams_df' = Some(read_csv(Val(csv'))) ]_vars

C4_Witness ==
    /\ LoadRan
    /\ run.fetched \in FetchErrors
    /\ dreams_df # None
    /\ Shown("error", "Error loading Google Sheet: ")

----------------------------------------------------------------------------
(* C5 *)

\* C5: a Generate Song run over a non-empty dream sequence in which the
\* text-generation call returns lyrics and the music API answers success issues
\* exactly one text-generation request and then exactly one music-generation request,
\* whose payload carries those lyrics with customMode true and instrumental false,
\* and shows the task identifier of the success response.
C5_EndToEnd ==
    (Generated /\ ClaudeReturnedLyrics(run.claude) /\ SunoSucceeded(run.suno)) =>
        /\ RunDreams # <<>>
        /\ Len(calls) = 2
        /\ IsClaudeCall(calls[1]) /\ calls[1].key = claude_api_key
        /\ IsSunoCall(calls[2]) /\ calls[2].key = suno_api_key
        /\ calls[2].json.customMode = TRUE
        /\ calls[2].json.instrumental = FALSE
        /\ calls[2].json.prompt = Some(run.claude.text)
        /\ \A t \in TaskIds :
              run.suno.json.data = [kind |-> "object", task_id |-> Some(t)] =>
                  ShownWith("info", "Task ID: ", t)

C5_Witness ==
    /\ Generated
    /\ SunoSucceeded(run.suno)
    /\ run.suno.json.data.task_id # None
    /\ Shown("info", "Task ID: ")
    /\ Len(calls) = 2

----------------------------------------------------------------------------
(* C6 *)

\* C6 as stated: the prompt's bulleted lines are the first min(n, 20) dreams.
C6_AsStated ==
    \A i \in 1..Len(calls) :
        IsClaudeCall(calls[i]) =>
            Bullets(calls[i].json.prompt)
                = DreamsText(SubSeq(RunDreams, 1, Min(Len(RunDreams), 20)))

\* C6 amended: the prompt sent upstream has one bulleted line ("- " and the entry
\* verbatim) for every entry of the dream sequence, all n of them, in their order,
\* between the fixed opening and closing text; nothing is truncated.
C6_PromptListsEveryDream ==
    \A i \in 1..Len(calls) :
        IsClaudeCall(calls[i]) =>
            /\ Bullets(calls[i].json.prompt) = DreamsText(RunDreams)
            /\ Len(calls[i].json.prompt) = Len(PromptHead) + Len(RunDreams) + Len(PromptTail)
            /\ \A k \in 1..Len(RunDreams) :
                  calls[i].json.prompt[Len(PromptHead) + k] = <<"- ", RunDreams[k]>>

C6_Witness ==
    /\ Len(ClaudeCalls) = 1
    /\ Len(RunDreams) > 20
    /\ Len(Bullets(ClaudeCalls[1].json.prompt)) > 20

----------------------------------------------------------------------------
(* C8 *)

IsNonEmptyCell(text) == text # ""

\* The non-empty cells of the selected column of the loaded sheet, in row order.
NonEmptyCells == SelectSeq(Val(csv)[run.dream_column], IsNonEmptyCell)

\* C8: the dreams a Generate Song run works on are the non-empty cells of the
\* selected column, in row order: none of them when the run stops at "No dreams
\* found", and otherwise exactly the bulleted entries of the prompt.
C8_DreamsAreNonEmptyCells ==
    Generated =>
        IF Len(ClaudeCalls) = 0
        THEN NonEmptyCells = <<>>
        ELSE Bullets(ClaudeCalls[1].json.prompt) = DreamsText(NonEmptyCells)

----------------------------------------------------------------------------
(* C9 *)

SongRequested == suno_result # None

\* C9 as stated: SongRequested is left by a successful reload, which ends with no
\* stored lyrics and no stored song result, or by regenerating, which ends with
\* stored lyrics and no stored song result, and by nothing else.
C9_AsStated ==
    [][ SongRequested =>
            IF run'.action = "load" /\ run'.fetched = "table"
            THEN lyrics' = None /\ suno_result' = None
            ELSE IF run'.action = "generate"
            THEN lyrics' # None
            ELSE suno_result' = suno_result /\ lyrics' = lyrics ]_vars

\* C9 amended: once a song result is stored the session stays in SongRequested.
\* A reload, successful or not, replaces at most dreams_df and keeps the stored
\* lyrics and song result; regenerating replaces both with the new run's lyrics and
\* response when the music API reports success and otherwise keeps both.
C9_SongRequestedIsKept ==
    [][ SongRequested =>
            /\ suno_result' # None /\ lyrics' # None
            /\ run'.action # "generate" => (suno_result' = suno_result /\ lyrics' = lyrics)
            /\ run'.action = "generate" =>
                  IF SunoSucceeded(run'.suno)
                  THEN /\ lyrics' = Some(run'.claude.text)
                       /\ suno_result' = Some(run'.suno.json)
                  ELSE suno_result' = suno_result /\ lyrics' = lyrics ]_vars

C9_Witness ==
    /\ SongRequested
    /\ lyrics # None
    /\ LoadRan
    /\ run.fetched = "table"

----------------------------------------------------------------------------
(* C10 *)

\* C10: a Generate Song run whose music-API call fails (exception, non-200 HTTP
\* status, non-200 embedded code) leaves the session's lyrics and suno_result as
\* they were, and in every state lyrics are stored exactly when a song result is.
C10_NoPartialState ==
    /\ [](lyrics # None <=> suno_result # None)
    /\ [][ (run'.action = "generate" /\ SunoFailed(run'.suno)) =>
              (lyrics' = lyrics /\ suno_result' = suno_result) ]_vars

C10_Witness ==
    /\ Generated
    /\ SunoFailed(run.suno)
    /\ run.suno.kind = "http"
    /\ run.suno.status # 200
    /\ lyrics # None
    /\ Val(lyrics) # run.claude.text

----------------------------------------------------------------------------
(* C7 *)

====
